---- MODULE Spec2Model ----
(***************************************************************************)
(* A model of two entry points of openclaw:                                *)
(*   - handleConfigSchemaHttpRequest (src/gateway/config-schema-http.ts),  *)
(*     the chainable HTTP handler that serves /openclaw.schema.json;       *)
(*   - createSkillsTool().execute (the skills agent tool), which validates *)
(*     an action and forwards it to the gateway with callGatewayTool.      *)
(*                                                                         *)
(* JavaScript values are tagged records.  A string is a sequence of        *)
(* segments, each segment either a run of whitespace (" ") or a run of     *)
(* non-whitespace characters, so trimming and emptiness are computed.  A   *)
(* finite number is kept in tenths, so 2500.7 is 25007 tenths and          *)
(* Math.floor is computed.                                                 *)
(***************************************************************************)
EXTENDS Integers, Sequences, FiniteSets, TLC

VARIABLES
    req,        \* the IncomingMessage: [method, url]
    world,      \* what the collaborators do for this request
    res,        \* the ServerResponse: [statusCode, headers, body, ended]
    ret,        \* "pending", or the handler's outcome
    called,     \* the collaborators called so far, in order
    composed,   \* the contributions the composer merged (history)
    args,       \* the argument bag of the tool invocation
    pc,         \* "called" | "awaiting" | "returned" | "threw"
    calls,      \* the remote calls issued by this invocation, in order
    outcome     \* the invocation's result or error

vars == <<req, world, res, ret, called, composed, args, pc, calls, outcome>>
httpVars == <<req, world, res, ret, called, composed>>
toolVars == <<args, pc, calls, outcome>>

----------------------------------------------------------------------------
(* JavaScript values *)

Undefined == [t |-> "undefined"]
Null == [t |-> "null"]
Str(s) == [t |-> "string", v |-> s]
Bool(b) == [t |-> "boolean", v |-> b]
Num(n) == [t |-> "number", k |-> "finite", tenths |-> n]
Whole(n) == Num(10 * n)
NaN == [t |-> "number", k |-> "NaN"]
Infinity == [t |-> "number", k |-> "Infinity"]
NegInfinity == [t |-> "number", k |-> "-Infinity"]
Arr(s) == [t |-> "array", v |-> s]
Obj(f) == [t |-> "object", v |-> f]
NoProperties == [k \in {} |-> Undefined]
EmptyObject == Obj(NoProperties)

TypeOf(v) ==
    IF v.t \in {"null", "array", "object"} THEN "object" ELSE v.t

IsArray(v) == v.t = "array"

IsFinite(v) == v.t = "number" /\ v.k = "finite"

\* ToBoolean: what `if (x)` and `x ? a : b` test.
Truthy(v) ==
    CASE v.t = "undefined" -> FALSE
      [] v.t = "null" -> FALSE
      [] v.t = "boolean" -> v.v
      [] v.t = "string" -> v.v # <<>>
      [] v.t = "number" -> v.k \in {"Infinity", "-Infinity"} \/ (v.k = "finite" /\ v.tenths # 0)
      [] OTHER -> TRUE

Has(o, k) == k \in DOMAIN o.v
Get(o, k) == IF Has(o, k) THEN o.v[k] ELSE Undefined

\* entry.configSchema?.schema
OptGet(o, k) == IF o.t \in {"undefined", "null"} THEN Undefined ELSE Get(o, k)

\* JSON.stringify: properties holding undefined are left out, undefined array
\* elements and non-finite numbers become null.
RECURSIVE JsonOf(_)
JsonOf(v) ==
    CASE v.t = "object" ->
            Obj([k \in {x \in DOMAIN v.v : v.v[x].t # "undefined"} |-> JsonOf(v.v[k])])
      [] v.t = "array" ->
            Arr([i \in DOMAIN v.v |->
                    IF v.v[i].t = "undefined" THEN Null ELSE JsonOf(v.v[i])])
      [] v.t = "number" -> IF v.k = "finite" THEN v ELSE Null
      [] OTHER -> v

JSONStringify(v) == IF v.t = "undefined" THEN Undefined ELSE [json |-> JsonOf(v)]

\* Outcomes of a call that may throw.
Ok(v) == [ok |-> TRUE, value |-> v]
Throw(e) == [ok |-> FALSE, err |-> e]

\* new Error(message), and the subclass the composer throws.
Error(msg) == [isError |-> TRUE, name |-> "Error", message |-> Str(msg)]
TypeError(msg) == [isError |-> TRUE, name |-> "TypeError", message |-> Str(msg)]
\* A thrown value that is not an Error (throw "boom").
Thrown(v) == [isError |-> FALSE, value |-> v]

----------------------------------------------------------------------------
(* The HTTP handler: src/gateway/config-schema-http.ts *)

SCHEMA_PATH == <<"/", "openclaw.schema.json">>

JsonContentType == Str(<<"application/json;", " ", "charset=utf-8">>)

MinOf(S) == CHOOSE x \in S : \A y \in S : x <= y

\* The input up to its query or fragment.
BeforeQuery(s) ==
    LET marks == {i \in DOMAIN s : s[i] \in {"?", "#"}}
    IN  IF marks = {} THEN s ELSE SubSeq(s, 1, MinOf(marks) - 1)

RECURSIVE DropSlashes(_)
DropSlashes(s) ==
    IF s # <<>> /\ Head(s) = "/" THEN DropSlashes(Tail(s)) ELSE s

\* new URL(input, "http://localhost"), for inputs made of "/", "?", "#" and
\* plain path or host segments.  An input that starts with two slashes names
\* a host (further slashes are skipped, http being a special scheme) and the
\* constructor throws a TypeError when that host is empty; an input that
\* starts with one slash is a path; any other input is resolved against the
\* base's path "/".
NewURL(input) ==
    LET p == BeforeQuery(input)
    IN  IF Len(p) >= 2 /\ p[1] = "/" /\ p[2] = "/"
        THEN LET rest == DropSlashes(p)
                 slashes == {i \in DOMAIN rest : rest[i] = "/"}
                 host == IF slashes = {} THEN rest
                         ELSE SubSeq(rest, 1, MinOf(slashes) - 1)
                 path == IF slashes = {} THEN <<"/">>
                         ELSE SubSeq(rest, MinOf(slashes), Len(rest))
             IN  IF host = <<>>
                 THEN Throw(TypeError(<<"Invalid", " ", "URL">>))
                 ELSE Ok([host |-> host, pathname |-> path])
        ELSE IF p # <<>> /\ p[1] = "/"
        THEN Ok([host |-> <<"localhost">>, pathname |-> p])
        ELSE Ok([host |-> <<"localhost">>, pathname |-> <<"/">> \o p])

\* req.url ?? "/"
UrlOrRoot(url) == IF url.t \in {"undefined", "null"} THEN <<"/">> ELSE url.v

\* A ServerResponse nothing has been written to.
FreshResponse ==
    [statusCode |-> 200, headers |-> <<>>, body |-> Undefined, ended |-> FALSE]

SetHeader(r, name, value) == [r EXCEPT !.headers = (name :> value) @@ r.headers]

sendJson(r, status, body) ==
    [SetHeader([r EXCEPT !.statusCode = status], "Content-Type", JsonContentType)
        EXCEPT !.body = JSONStringify(body), !.ended = TRUE]

\* The HEAD branch: status and header, and an end() with no body.
SendHead(r) ==
    [SetHeader([r EXCEPT !.statusCode = 200], "Content-Type", JsonContentType)
        EXCEPT !.ended = TRUE]

\* ErrorText with the thrown value's text replaced by a fixed one.
ErrorTextGeneric(err) == Str(<<"internal", " ", "error">>)

\* String(err instanceof Error ? err.message : err), for strings and Errors.
ErrorText(err) == IF err.isError THEN err.message ELSE err.value

\* The catch clause.
SendError(r, err) == sendJson(r, 500, Obj([error |-> ErrorText(err)]))

\* req.method !== "GET" && req.method !== "HEAD"
MethodRejected(method) == method # Str(<<"GET">>) /\ method # Str(<<"HEAD">>)

\* MapPlugin with the plugin's name taken for its id.
MapPluginNameAsId(plugin) ==
    Obj([id |-> Get(plugin, "name"),
         name |-> Get(plugin, "name"),
         description |-> Get(plugin, "description"),
         configUiHints |-> Get(plugin, "configUiHints"),
         configSchema |-> Get(plugin, "configJsonSchema")])

\* What the handler hands to buildConfigSchema for one plugin of the registry.
MapPlugin(plugin) ==
    Obj([id |-> Get(plugin, "id"),
         name |-> Get(plugin, "name"),
         description |-> Get(plugin, "description"),
         configUiHints |-> Get(plugin, "configUiHints"),
         configSchema |-> Get(plugin, "configJsonSchema")])

\* What the handler hands to buildConfigSchema for one channel plugin.
MapChannel(entry) ==
    Obj([id |-> Get(entry, "id"),
         label |-> Get(Get(entry, "meta"), "label"),
         description |-> Get(Get(entry, "meta"), "blurb"),
         configSchema |-> OptGet(Get(entry, "configSchema"), "schema"),
         configUiHints |-> OptGet(Get(entry, "configSchema"), "uiHints")])

\* pluginRegistry.plugins.map(...)
MapPlugins(plugins) == [i \in DOMAIN plugins |-> MapPlugin(plugins[i])]

\* listChannelPlugins().map(...)
MapChannels(channels) == [i \in DOMAIN channels |-> MapChannel(channels[i])]

(* buildConfigSchema lives in src/config/schema.ts, which is not among the   *)
(* sources; it is modelled from the specification's Descriptor Normalizer    *)
(* (4.1) and Schema Composer (4.2).                                          *)

BaseSchemaProperties == Obj([gateway |-> EmptyObject, agents |-> EmptyObject])

ContributionOfPlugin(p) ==
    [id |-> Get(p, "id"), displayName |-> Get(p, "name"),
     description |-> Get(p, "description"),
     schemaFragment |-> Get(p, "configSchema"), uiHints |-> Get(p, "configUiHints")]

ContributionOfChannel(c) ==
    [id |-> Get(c, "id"), displayName |-> Get(c, "label"),
     description |-> Get(c, "description"),
     schemaFragment |-> Get(c, "configSchema"), uiHints |-> Get(c, "configUiHints")]

HasId(c) == Truthy(c.id)

\* 4.1: one ordered sequence, plugins first; a falsy id is dropped.
NormalizeDescriptors(plugins, channels) ==
    SelectSeq([i \in DOMAIN plugins |-> ContributionOfPlugin(plugins[i])]
              \o [i \in DOMAIN channels |-> ContributionOfChannel(channels[i])],
              HasId)

NamespacedEntry(c) ==
    Obj([schema |-> IF c.schemaFragment.t = "undefined" THEN EmptyObject
                    ELSE c.schemaFragment,
         displayName |-> c.displayName,
         description |-> c.description,
         uiHints |-> c.uiHints])

CompositionError(id) ==
    [isError |-> TRUE, name |-> "CompositionError",
     message |-> Str(<<"duplicate", " ", "contribution", " ", "id:", " ">> \o id.v)]

\* 4.2: one namespaced entry per id; the first id met twice is an error.
compose(base, contributions) ==
    LET repeats == {j \in DOMAIN contributions :
                        \E i \in 1..(j - 1) : contributions[i].id = contributions[j].id}
    IN  IF repeats # {}
        THEN Throw(CompositionError(contributions[MinOf(repeats)].id))
        ELSE Ok(Obj([properties |-> base,
                     extensions |->
                        Obj([k \in {contributions[i].id.v : i \in DOMAIN contributions} |->
                                NamespacedEntry(
                                    CHOOSE c \in {contributions[i] : i \in DOMAIN contributions} :
                                        c.id.v = k)])]))

buildConfigSchema(params) ==
    LET contributions == NormalizeDescriptors(params.plugins, params.channels)
        merged == compose(BaseSchemaProperties, contributions)
    IN  [result |-> IF merged.ok THEN Ok(Obj([schema |-> merged.value])) ELSE merged,
         contributions |-> contributions]

\* The collaborators of the try block, in the order the code calls them.
CallOrder ==
    <<"loadConfig", "resolveDefaultAgentId", "resolveAgentWorkspaceDir",
      "loadOpenClawPlugins", "listChannelPlugins", "buildConfigSchema">>

NotComposed == [ran |-> FALSE, contributions |-> <<>>]

Idle == [kind |-> "idle"]
Pending == [kind |-> "pending"]
Returned(b) == [kind |-> "returned", value |-> b]
Escaped(e) == [kind |-> "threw", err |-> e]

\* The body of the try block: the calls it made and what it ended with.  w
\* says which collaborator throws (failAt), what it throws, and what the
\* plugin registry and the channel lister return.
TryBody(w) ==
    LET failing == {i \in DOMAIN CallOrder : CallOrder[i] = w.failAt}
    IN  IF failing # {}
        THEN [result |-> Throw(w.thrown),
              called |-> SubSeq(CallOrder, 1, MinOf(failing)),
              composed |-> NotComposed]
        ELSE LET built == buildConfigSchema([plugins |-> MapPlugins(w.plugins),
                                             channels |-> MapChannels(w.channels)])
             IN  [result |-> built.result,
                  called |-> CallOrder,
                  composed |-> [ran |-> TRUE, contributions |-> built.contributions]]

\* GetBranch without its catch clause: a failure escapes to the caller.
GetBranchWithoutCatch(r, w) ==
    LET t == TryBody(w)
    IN  [ret |-> IF t.result.ok THEN Returned(TRUE) ELSE Escaped(t.result.err),
         res |-> IF t.result.ok
                 THEN sendJson(r, 200, Get(t.result.value, "schema"))
                 ELSE r,
         called |-> t.called,
         composed |-> t.composed]

\* try { ... sendJson(res, 200, result.schema) } catch (err) { ... }
GetBranch(r, w) ==
    LET t == TryBody(w)
    IN  [ret |-> Returned(TRUE),
         res |-> IF t.result.ok
                 THEN sendJson(r, 200, Get(t.result.value, "schema"))
                 ELSE SendError(r, t.result.err),
         called |-> t.called,
         composed |-> t.composed]

Untouched(r, result) ==
    [ret |-> result, res |-> r, called |-> <<>>, composed |-> NotComposed]

handleConfigSchemaHttpRequest(rq, r, w) ==
    IF MethodRejected(rq.method)
    THEN Untouched(r, Returned(FALSE))
    ELSE LET url == NewURL(UrlOrRoot(rq.url))
         IN  IF ~url.ok
             THEN Untouched(r, Escaped(url.err))
             ELSE IF url.value.pathname # SCHEMA_PATH
             THEN Untouched(r, Returned(FALSE))
             ELSE IF rq.method = Str(<<"HEAD">>)
             THEN [Untouched(r, Returned(TRUE)) EXCEPT !.res = SendHead(r)]
             ELSE GetBranch(r, w)

----------------------------------------------------------------------------
(* The skills tool: createSkillsTool().execute *)

DefaultTimeoutMs == 60000

MinInstallTimeoutMs == 1000

IsSpace(seg) == seg = " "

RECURSIVE TrimStart(_)
TrimStart(s) == IF s # <<>> /\ IsSpace(Head(s)) THEN TrimStart(Tail(s)) ELSE s

RECURSIVE TrimEnd(_)
TrimEnd(s) ==
    IF s # <<>> /\ IsSpace(s[Len(s)]) THEN TrimEnd(SubSeq(s, 1, Len(s) - 1)) ELSE s

\* String.prototype.trim
Trim(s) == TrimEnd(TrimStart(s))

(* readStringParam lives in ./common.ts, which is not among the sources.  It  *)
(* is modelled from the specification (4.4: a required field that is missing, *)
(* empty or whitespace-only fails with a parameter error) and from its call   *)
(* sites: { required: true } and { trim: false } are its options, so trimming *)
(* is the default.  A value that is no string, or is empty once trimmed,      *)
(* reads as undefined, or throws when required.                               *)
readStringParam(params, key, required, trim) ==
    LET raw == Get(params, key)
        missing == IF required
                   THEN Throw(Error(<<key, " ", "required">>))
                   ELSE Ok(Undefined)
    IN  IF raw.t # "string"
        THEN missing
        ELSE LET value == IF trim THEN Trim(raw.v) ELSE raw.v
             IN  IF value = <<>> THEN missing ELSE Ok(Str(value))

\* What execute does up to its await: it throws, or it issues one call.
Throws(e) == [kind |-> "throw", err |-> e]
Calls(name, opts, payload) ==
    [kind |-> "call", call |-> [name |-> name, opts |-> opts, params |-> payload]]

\* typeof params.timeoutMs === "number" ? params.timeoutMs : 60_000
CallTimeout(params) ==
    IF TypeOf(Get(params, "timeoutMs")) = "number"
    THEN Get(params, "timeoutMs")
    ELSE Whole(DefaultTimeoutMs)

GatewayOpts(params) ==
    [gatewayUrl |-> readStringParam(params, "gatewayUrl", FALSE, FALSE).value,
     gatewayToken |-> readStringParam(params, "gatewayToken", FALSE, FALSE).value,
     timeoutMs |-> CallTimeout(params)]

StatusCase(params, gatewayOpts) ==
    LET agentId == readStringParam(params, "agentId", FALSE, TRUE).value
    IN  Calls("skills.status", gatewayOpts,
              Obj(IF Truthy(agentId) THEN [agentId |-> agentId] ELSE NoProperties))

\* Math.floor, Math.max
Floor(n) == Whole(n.tenths \div 10)
MaxNum(a, b) == IF a.tenths >= b.tenths THEN a ELSE b

\* InstallTimeout without the lower limit.
InstallTimeoutUnclamped(params) ==
    LET t == Get(params, "timeoutMs")
    IN  IF TypeOf(t) = "number" /\ IsFinite(t) THEN Floor(t) ELSE Undefined

InstallTimeout(params) ==
    LET t == Get(params, "timeoutMs")
    IN  IF TypeOf(t) = "number" /\ IsFinite(t)
        THEN MaxNum(Whole(MinInstallTimeoutMs), Floor(t))
        ELSE Undefined

\* InstallCase with installId read as an optional field.
InstallCaseOptionalId(params, gatewayOpts) ==
    LET name == readStringParam(params, "name", TRUE, TRUE)
        installId == readStringParam(params, "installId", FALSE, TRUE)
        timeoutMs == InstallTimeout(params)
    IN  IF ~name.ok THEN Throws(name.err)
        ELSE Calls("skills.install", gatewayOpts,
                   Obj([name |-> name.value, installId |-> installId.value]
                       @@ (IF Truthy(timeoutMs)
                           THEN [timeoutMs |-> timeoutMs] ELSE NoProperties)))

InstallCase(params, gatewayOpts) ==
    LET name == readStringParam(params, "name", TRUE, TRUE)
        installId == readStringParam(params, "installId", TRUE, TRUE)
        timeoutMs == InstallTimeout(params)
    IN  IF ~name.ok THEN Throws(name.err)
        ELSE IF ~installId.ok THEN Throws(installId.err)
        ELSE Calls("skills.install", gatewayOpts,
                   Obj([name |-> name.value, installId |-> installId.value]
                       @@ (IF Truthy(timeoutMs)
                           THEN [timeoutMs |-> timeoutMs] ELSE NoProperties)))

\* UpdatePayload with the fields tested for truthiness, not for their type.
UpdatePayloadByTruthiness(params, skillKey) ==
    Obj([skillKey |-> skillKey]
        @@ (IF Truthy(Get(params, "enabled"))
            THEN [enabled |-> Get(params, "enabled")] ELSE NoProperties)
        @@ (IF Truthy(Get(params, "apiKey"))
            THEN [apiKey |-> Get(params, "apiKey")] ELSE NoProperties)
        @@ (IF Truthy(Get(params, "env"))
            THEN [env |-> Get(params, "env")] ELSE NoProperties))

\* UpdatePayload without the Array.isArray test.
UpdatePayloadArraysToo(params, skillKey) ==
    Obj([skillKey |-> skillKey]
        @@ (IF TypeOf(Get(params, "enabled")) = "boolean"
            THEN [enabled |-> Get(params, "enabled")] ELSE NoProperties)
        @@ (IF TypeOf(Get(params, "apiKey")) = "string"
            THEN [apiKey |-> Get(params, "apiKey")] ELSE NoProperties)
        @@ (IF Truthy(Get(params, "env")) /\ TypeOf(Get(params, "env")) = "object"
            THEN [env |-> Get(params, "env")] ELSE NoProperties))

UpdatePayload(params, skillKey) ==
    Obj([skillKey |-> skillKey]
        @@ (IF TypeOf(Get(params, "enabled")) = "boolean"
            THEN [enabled |-> Get(params, "enabled")] ELSE NoProperties)
        @@ (IF TypeOf(Get(params, "apiKey")) = "string"
            THEN [apiKey |-> Get(params, "apiKey")] ELSE NoProperties)
        @@ (IF /\ Truthy(Get(params, "env"))
               /\ TypeOf(Get(params, "env")) = "object"
               /\ ~IsArray(Get(params, "env"))
            THEN [env |-> Get(params, "env")] ELSE NoProperties))

UpdateCase(params, gatewayOpts) ==
    LET skillKey == readStringParam(params, "skillKey", TRUE, TRUE)
    IN  IF ~skillKey.ok THEN Throws(skillKey.err)
        ELSE Calls("skills.update", gatewayOpts, UpdatePayload(params, skillKey.value))

BinsCase(gatewayOpts) == Calls("skills.bins", gatewayOpts, EmptyObject)

\* execute, from its entry to its await (or to the error it throws first).
execute(params) ==
    LET action == readStringParam(params, "action", TRUE, TRUE)
    IN  IF ~action.ok THEN Throws(action.err)
        ELSE LET gatewayOpts == GatewayOpts(params)
             IN  CASE action.value = Str(<<"status">>) -> StatusCase(params, gatewayOpts)
                   [] action.value = Str(<<"install">>) -> InstallCase(params, gatewayOpts)
                   [] action.value = Str(<<"update">>) -> UpdateCase(params, gatewayOpts)
                   [] action.value = Str(<<"bins">>) -> BinsCase(gatewayOpts)
                   [] OTHER ->
                        Throws(Error(<<"Unknown", " ", "action:", " ">> \o action.value.v))

(* jsonResult lives in ./common.ts too; from the specification (6): a JSON-   *)
(* serialized result wrapping whatever the remote call returned.              *)
jsonResult(payload) == Obj([text |-> JSONStringify(payload), details |-> payload])

\* Awaited with a second call issued when the first one rejects.
AwaitedWithRetry(issued, settled) ==
    IF settled.ok
    THEN [pc |-> "returned", outcome |-> jsonResult(settled.value),
          calls |-> [issued EXCEPT ![Len(issued)].settled = TRUE]]
    ELSE [pc |-> "awaiting", outcome |-> Undefined,
          calls |-> Append([issued EXCEPT ![Len(issued)].settled = TRUE],
                           issued[Len(issued)])]

\* return jsonResult(await callGatewayTool(...)): the call settles; its
\* result is wrapped and returned, its rejection is the invocation's failure.
Awaited(issued, settled) ==
    IF settled.ok
    THEN [pc |-> "returned", outcome |-> jsonResult(settled.value),
          calls |-> [issued EXCEPT ![Len(issued)].settled = TRUE]]
    ELSE [pc |-> "threw", outcome |-> settled.err,
          calls |-> [issued EXCEPT ![Len(issued)].settled = TRUE]]

----------------------------------------------------------------------------
(* The requests and collaborator behaviours explored *)

MaxDescriptors == 2

SeqsUpTo(S, n) == UNION {[1..k -> S] : k \in 0..n}

Methods == {Str(<<"GET">>), Str(<<"HEAD">>), Str(<<"POST">>)}

Urls ==
    {Undefined,
     Str(<<"/", "openclaw.schema.json">>),
     Str(<<"/", "openclaw.schema.json", "?", "x=1">>),
     Str(<<"/", "other">>),
     Str(<<"openclaw.schema.json">>),
     Str(<<"/", "/">>),
     Str(<<"/", "/", "example.test", "/", "openclaw.schema.json">>)}

Requests == [method : Methods, url : Urls]

DescriptorIds == {Undefined, Str(<<>>), Str(<<"alpha">>), Str(<<"beta">>)}

PluginRecord(id) ==
    Obj([id |-> id, name |-> Str(<<"Plugin">>), description |-> Undefined,
         configUiHints |-> Undefined,
         configJsonSchema |-> Obj([type |-> Str(<<"object">>)])])

ChannelPlugin(id, withSchema) ==
    Obj([id |-> id,
         meta |-> Obj([label |-> Str(<<"Channel">>), blurb |-> Str(<<"chat">>)]),
         configSchema |-> IF withSchema
                          THEN Obj([schema |-> Obj([type |-> Str(<<"object">>)]),
                                    uiHints |-> EmptyObject])
                          ELSE Undefined])

Plugins == {PluginRecord(id) : id \in DescriptorIds}
Channels == {ChannelPlugin(id, TRUE) : id \in DescriptorIds}
                \cup {ChannelPlugin(Str(<<"alpha">>), FALSE)}

ThrownValues == {Error(<<"load", " ", "failed">>), Thrown(Str(<<"boom">>))}

NoFailure == Error(<<>>)

Worlds ==
    {w \in [failAt : {"none"} \cup {CallOrder[i] : i \in DOMAIN CallOrder},
            thrown : ThrownValues \cup {NoFailure},
            plugins : SeqsUpTo(Plugins, MaxDescriptors),
            channels : SeqsUpTo(Channels, MaxDescriptors)] :
        /\ Len(w.plugins) + Len(w.channels) <= MaxDescriptors
        /\ (w.failAt = "none") <=> (w.thrown = NoFailure)}

IdleTool ==
    /\ args = Undefined
    /\ pc = "idle"
    /\ calls = <<>>
    /\ outcome = Undefined

NoRequest == [method |-> Undefined, url |-> Undefined]

NoWorld == [failAt |-> "none", thrown |-> NoFailure, plugins |-> <<>>, channels |-> <<>>]

IdleHttp ==
    /\ req = NoRequest
    /\ world = NoWorld
    /\ res = FreshResponse
    /\ ret = Idle
    /\ called = <<>>
    /\ composed = NotComposed

InitHttp == IdleHttp /\ IdleTool

\* A request arrives, with a response object of its own.
ReceiveRequest ==
    /\ ret = Idle
    /\ req' \in Requests
    /\ world' \in Worlds
    /\ ret' = Pending
    /\ UNCHANGED <<res, called, composed, toolVars>>

\* The server hands the request to the handler, which runs to its end.
HandleRequest ==
    /\ ret = Pending
    /\ LET h == handleConfigSchemaHttpRequest(req, res, world)
       IN  /\ ret' = h.ret
           /\ res' = h.res
           /\ called' = h.called
           /\ composed' = h.composed
    /\ UNCHANGED <<req, world, toolVars>>

\* The request is over; nothing of it is kept.
FinishRequest ==
    /\ ret.kind \in {"returned", "threw"}
    /\ req' = NoRequest
    /\ world' = NoWorld
    /\ res' = FreshResponse
    /\ ret' = Idle
    /\ called' = <<>>
    /\ composed' = NotComposed
    /\ UNCHANGED toolVars

NextHttp == ReceiveRequest \/ HandleRequest \/ FinishRequest

SpecHttp == InitHttp /\ [][NextHttp]_vars

----------------------------------------------------------------------------
(* The tool invocations and gateway behaviours explored *)

ActionValues ==
    {Undefined, Whole(1), Str(<<>>), Str(<<" ">>),
     Str(<<"status">>), Str(<<"install">>), Str(<<"update">>), Str(<<"bins">>),
     Str(<<" ", "status">>), Str(<<"remove">>)}

TimeoutValues ==
    {Undefined, Str(<<"x">>), Whole(5), Num(25007), Whole(90000),
     Whole(0), Num(-5), NaN, Infinity}

GatewayValues == {Undefined, Str(<<"ws://gateway.test">>)}

AgentIdValues == {Undefined, Str(<<>>), Str(<<"w">>)}

NameValues == {Undefined, Str(<<>>), Str(<<" ">>), Str(<<"ffmpeg">>)}

InstallIdValues == {Undefined, Str(<<" ">>), Str(<<"brew-ffmpeg">>)}

SkillKeyValues == {Undefined, Str(<<" ">>), Str(<<"my-skill">>)}

EnabledValues == {Undefined, Bool(TRUE), Bool(FALSE), Str(<<"yes">>)}

ApiKeyValues == {Undefined, Str(<<>>), Str(<<"sk-1">>), Whole(1)}

EnvValues ==
    {Undefined, Null, Arr(<<>>), Arr(<<Str(<<"X">>)>>),
     Obj([X |-> Str(<<>>)]), EmptyObject}

\* The fields that go with one action; they meet every action value.
FieldFamilies ==
    [agentId : AgentIdValues, name : {Undefined}, installId : {Undefined},
     skillKey : {Undefined}, enabled : {Undefined}, apiKey : {Undefined},
     env : {Undefined}]
    \cup
    [agentId : {Undefined}, name : NameValues, installId : InstallIdValues,
     skillKey : {Undefined}, enabled : {Undefined}, apiKey : {Undefined},
     env : {Undefined}]
    \cup
    [agentId : {Undefined}, name : {Undefined}, installId : {Undefined},
     skillKey : SkillKeyValues, enabled : EnabledValues, apiKey : ApiKeyValues,
     env : EnvValues]

Invocations ==
    {Obj([action |-> a, timeoutMs |-> t, gatewayUrl |-> g, gatewayToken |-> g,
          agentId |-> f.agentId, name |-> f.name, installId |-> f.installId,
          skillKey |-> f.skillKey, enabled |-> f.enabled, apiKey |-> f.apiKey,
          env |-> f.env]) :
        <<a, t, g, f>> \in ActionValues \X TimeoutValues \X GatewayValues \X FieldFamilies}

GatewayResults == {Obj([ok |-> Bool(TRUE)])}

GatewayErrors == {Error(<<"gateway", " ", "timeout">>)}

InitSkills == IdleTool /\ IdleHttp

\* The agent calls the tool with an argument bag.
Invoke ==
    /\ pc = "idle"
    /\ args' \in Invocations
    /\ pc' = "called"
    /\ UNCHANGED <<calls, outcome, httpVars>>

\* execute runs to the error it throws or to the call it awaits.
Execute ==
    /\ pc = "called"
    /\ LET e == execute(args)
       IN  IF e.kind = "throw"
           THEN /\ pc' = "threw"
                /\ outcome' = e.err
                /\ calls' = calls
           ELSE /\ pc' = "awaiting"
                /\ outcome' = outcome
                /\ calls' = Append(calls, e.call @@ [settled |-> FALSE])
    /\ UNCHANGED <<args, httpVars>>

\* The gateway answers the call.
GatewayResolves ==
    /\ pc = "awaiting"
    /\ \E r \in GatewayResults :
        LET a == Awaited(calls, Ok(r))
        IN  pc' = a.pc /\ outcome' = a.outcome /\ calls' = a.calls
    /\ UNCHANGED <<args, httpVars>>

\* The gateway call rejects or times out.
GatewayRejects ==
    /\ pc = "awaiting"
    /\ \E e \in GatewayErrors :
        LET a == Awaited(calls, Throw(e))
        IN  pc' = a.pc /\ outcome' = a.outcome /\ calls' = a.calls
    /\ UNCHANGED <<args, httpVars>>

\* The invocation is over; nothing of it is kept.
FinishInvocation ==
    /\ pc \in {"returned", "threw"}
    /\ args' = Undefined
    /\ pc' = "idle"
    /\ calls' = <<>>
    /\ outcome' = Undefined
    /\ UNCHANGED httpVars

NextSkills ==
    Invoke \/ Execute \/ GatewayResolves \/ GatewayRejects \/ FinishInvocation

SpecSkills == InitSkills /\ [][NextSkills]_vars

----------------------------------------------------------------------------
(* Properties of the HTTP handler *)

Handled == ret.kind \in {"returned", "threw"}

IsGet == req.method = Str(<<"GET">>)

\* The request's URL is one of those whose pathname is the schema path.
OnSchemaPath ==
    req.url \in {Str(<<"/", "openclaw.schema.json">>),
                 Str(<<"/", "openclaw.schema.json", "?", "x=1">>),
                 Str(<<"openclaw.schema.json">>),
                 Str(<<"/", "/", "example.test", "/", "openclaw.schema.json">>)}

\* The request's URL is one the URL constructor rejects.
UnparsableUrl == req.url = Str(<<"/", "/">>)

\* The ids of the descriptors the collaborators return, plugins first.
WorldIds ==
    [i \in DOMAIN world.plugins |-> Get(world.plugins[i], "id")]
        \o [i \in DOMAIN world.channels |-> Get(world.channels[i], "id")]

NonEmptyId(id) == id.t = "string" /\ id.v # <<>>

SharedIds ==
    {WorldIds[i] : i \in {j \in DOMAIN WorldIds :
        /\ NonEmptyId(WorldIds[j])
        /\ \E k \in DOMAIN WorldIds : k # j /\ WorldIds[k] = WorldIds[j]}}

EveryStepSucceeded == world.failAt = "none" /\ SharedIds = {}

ThrownText == IF world.thrown.isError THEN world.thrown.message ELSE world.thrown.value

IsErrorBody(b) ==
    /\ b # Undefined
    /\ b.json.t = "object"
    /\ DOMAIN b.json.v = {"error"}
    /\ b.json.v["error"].t = "string"

\* C1: a GET on /openclaw.schema.json always returns true with the response
\* ended and no exception escaping; when a collaborator throws, the response
\* is status 500 with the JSON body { error: <message> }, and status 200
\* goes out only when every step succeeded.
C1_FailureBecomes500 ==
    (Handled /\ IsGet /\ OnSchemaPath) =>
        /\ ret = Returned(TRUE)
        /\ res.ended
        /\ res.statusCode \in {200, 500}
        /\ (~EveryStepSucceeded) =>
                (res.statusCode = 500 /\ IsErrorBody(res.body))
        /\ (world.failAt # "none") =>
                res.body = [json |-> Obj([error |-> ThrownText])]
        /\ (res.statusCode = 200) => (EveryStepSucceeded /\ called = CallOrder)

C1_Witness ==
    /\ Handled /\ IsGet /\ OnSchemaPath
    /\ world.failAt = "loadOpenClawPlugins"
    /\ ~world.thrown.isError
    /\ res.statusCode = 500
    /\ ret = Returned(TRUE)

\* C2: a request whose method is neither GET nor HEAD, or whose URL does not
\* name /openclaw.schema.json, makes the handler return false with the
\* response untouched and no collaborator called.
C2_NotMatchedReturnsFalse ==
    (Handled /\ (req.method \notin {Str(<<"GET">>), Str(<<"HEAD">>)} \/ ~OnSchemaPath)) =>
        /\ ret = Returned(FALSE)
        /\ res = FreshResponse
        /\ called = <<>>

Contains(text, part) ==
    \E i \in 1..(Len(text) + 1) :
        i + Len(part) - 1 <= Len(text) /\ SubSeq(text, i, i + Len(part) - 1) = part

\* C5: when two contributions of a GET /openclaw.schema.json request share an
\* id, the response is status 500 with an error message naming a colliding
\* id, and no schema document goes out.
\* C2, for the requests whose URL parses: the same, and it holds.
C2_ParsedNotMatchedReturnsFalse ==
    (Handled /\ ~UnparsableUrl
        /\ (req.method \notin {Str(<<"GET">>), Str(<<"HEAD">>)} \/ ~OnSchemaPath)) =>
        /\ ret = Returned(FALSE)
        /\ res = FreshResponse
        /\ called = <<>>

\* The request the handler does not answer at all: a GET or HEAD whose URL
\* the URL constructor rejects ends in a TypeError thrown at the caller.
C2_UnparsableUrlThrows ==
    (Handled /\ UnparsableUrl /\ req.method \in {Str(<<"GET">>), Str(<<"HEAD">>)}) =>
        (ret.kind = "threw" /\ res = FreshResponse /\ called = <<>>)

C5_SharedIdIs500 ==
    (Handled /\ IsGet /\ OnSchemaPath /\ world.failAt = "none" /\ SharedIds # {}) =>
        /\ res.statusCode = 500
        /\ IsErrorBody(res.body)
        /\ \E id \in SharedIds : Contains(res.body.json.v["error"].v, id.v)
        /\ ~Has(res.body.json, "properties")
        /\ ~Has(res.body.json, "extensions")

C5_Witness ==
    /\ Handled /\ IsGet /\ OnSchemaPath /\ world.failAt = "none"
    /\ Len(world.plugins) = 1 /\ Len(world.channels) = 1
    /\ SharedIds = {Str(<<"alpha">>)}
    /\ res.statusCode = 500

NonEmptyWorldIds == SelectSeq(WorldIds, NonEmptyId)

----------------------------------------------------------------------------
(* Properties of the skills tool *)

Ran == pc \in {"awaiting", "returned", "threw"}

Arg(k) == Get(args, k)

\* A string with something other than whitespace in it.
NonBlank(v) == v.t = "string" /\ \E i \in DOMAIN v.v : v.v[i] # " "

\* The action the argument bag names, whitespace around it aside ("" if none).
NamedAction ==
    IF NonBlank(Arg("action")) /\ Len(SelectSeq(Arg("action").v, LAMBDA x : x # " ")) = 1
    THEN SelectSeq(Arg("action").v, LAMBDA x : x # " ")[1]
    ELSE ""

KnownAction == NamedAction \in {"status", "install", "update", "bins"}

PassesValidation ==
    /\ KnownAction
    /\ (NamedAction = "install") => (NonBlank(Arg("name")) /\ NonBlank(Arg("installId")))
    /\ (NamedAction = "update") => NonBlank(Arg("skillKey"))

CallNameOf(action) ==
    CASE action = "status" -> "skills.status"
      [] action = "install" -> "skills.install"
      [] action = "update" -> "skills.update"
      [] action = "bins" -> "skills.bins"
      [] OTHER -> "none"

\* C3: an invocation that fails validation (action missing or unknown, install
\* without name or installId, update without skillKey) ends in an error with
\* no remote call issued, an unknown action with the "Unknown action" error.
C3_InvalidIssuesNoCall ==
    (Ran /\ ~PassesValidation) =>
        /\ pc = "threw"
        /\ calls = <<>>
        /\ outcome.isError
        /\ (NonBlank(Arg("action")) /\ ~KnownAction) =>
                SubSeq(outcome.message.v, 1, 3) = <<"Unknown", " ", "action:">>

C3_Witness ==
    /\ pc = "threw" /\ calls = <<>>
    /\ Arg("action") = Str(<<"install">>)
    /\ Arg("name") = Str(<<"ffmpeg">>)
    /\ Arg("installId") = Str(<<" ">>)

\* C4: an invocation that passes validation issues exactly one remote call,
\* named skills.<action>, and returns only once that call has settled; no
\* invocation has more than one call, and a rejected call is the invocation's
\* failure, with no second call.
C4_ExactlyOneCall ==
    /\ Len(calls) <= 1
    /\ (Ran /\ PassesValidation) =>
        /\ Len(calls) = 1
        /\ calls[1].name = CallNameOf(NamedAction)
        /\ (pc = "awaiting") <=> ~calls[1].settled
        /\ (pc = "returned") => outcome = jsonResult(CHOOSE r \in GatewayResults : TRUE)
        /\ (pc = "threw") => outcome \in GatewayErrors

C4_Witness ==
    /\ pc = "threw"
    /\ Len(calls) = 1 /\ calls[1].settled
    /\ calls[1].name = "skills.bins"
    /\ outcome \in GatewayErrors

IsUpdate == NamedAction = "update" /\ NonBlank(Arg("skillKey"))

IsInstall ==
    NamedAction = "install" /\ NonBlank(Arg("name")) /\ NonBlank(Arg("installId"))

C7_InstallTimeoutClamped ==
    (Ran /\ IsInstall) =>
        /\ Len(calls) = 1
        /\ calls[1].name = "skills.install"
        /\ LET t == Arg("timeoutMs")
               sent == calls[1].params
           IN  /\ Has(sent, "timeoutMs") <=> (t.t = "number" /\ t.k = "finite")
               /\ Has(sent, "timeoutMs") =>
                    /\ sent.v["timeoutMs"].t = "number"
                    /\ sent.v["timeoutMs"].k = "finite"
                    /\ sent.v["timeoutMs"].tenths % 10 = 0
                    /\ sent.v["timeoutMs"].tenths >= 10 * 1000
                    /\ (t.tenths >= 10 * 1000) =>
                            /\ sent.v["timeoutMs"].tenths <= t.tenths
                            /\ t.tenths - sent.v["timeoutMs"].tenths < 10
                    /\ (t.tenths < 10 * 1000) => sent.v["timeoutMs"].tenths = 10 * 1000
               /\ (t = Whole(5)) => Get(sent, "timeoutMs") = Whole(1000)
               /\ (t = Num(25007)) => Get(sent, "timeoutMs") = Whole(2500)
               /\ (t = Str(<<"x">>)) => ~Has(sent, "timeoutMs")

C7_Witness ==
    /\ pc = "awaiting"
    /\ IsInstall
    /\ Arg("timeoutMs") = Num(25007)
    /\ calls[1].params.v["timeoutMs"] = Whole(2500)

\* C8: the payload of skills.update carries skillKey and, of enabled, apiKey
\* and env, exactly those the caller gave with the accepted type (a boolean, a
\* string, an object that is no array), each with the caller's value.
C8_UpdatePayloadByType ==
    (Ran /\ IsUpdate) =>
        /\ Len(calls) = 1
        /\ calls[1].name = "skills.update"
        /\ LET sent == calls[1].params
           IN  /\ Has(sent, "skillKey") /\ NonBlank(sent.v["skillKey"])
               /\ DOMAIN sent.v \subseteq {"skillKey", "enabled", "apiKey", "env"}
               /\ Has(sent, "enabled") <=> Arg("enabled").t = "boolean"
               /\ Has(sent, "apiKey") <=> Arg("apiKey").t = "string"
               /\ Has(sent, "env") <=> Arg("env").t = "object"
               /\ \A k \in DOMAIN sent.v \ {"skillKey"} : sent.v[k] = Arg(k)

C8_Witness ==
    /\ pc = "awaiting"
    /\ IsUpdate
    /\ Arg("enabled") = Bool(FALSE)
    /\ Arg("env") = Obj([X |-> Str(<<>>)])
    /\ calls[1].params.v["enabled"] = Bool(FALSE)
    /\ calls[1].params.v["env"] = Obj([X |-> Str(<<>>)])

\* C10: the options of every remote call carry a timeoutMs that is a finite
\* number greater than 0, and 60000 when the caller gave no number.
C10_CallTimeoutPositive ==
    \A i \in DOMAIN calls :
        /\ calls[i].opts.timeoutMs.t = "number"
        /\ calls[i].opts.timeoutMs.k = "finite"
        /\ calls[i].opts.timeoutMs.tenths > 0
        /\ (Arg("timeoutMs").t # "number") => calls[i].opts.timeoutMs = Whole(60000)

\* What the options carry in fact: the caller's timeoutMs whenever it is a
\* number of any kind, and 60000 otherwise.
C10_CallTimeoutAsGiven ==
    \A i \in DOMAIN calls :
        calls[i].opts.timeoutMs =
            IF Arg("timeoutMs").t = "number" THEN Arg("timeoutMs") ELSE Whole(60000)

====
